---- MODULE Spec2Model ----
(***************************************************************************)
(* Model of the quars statistics-and-optimization engine:                  *)
(*   portfolio.rs     calculate_portfolio_stats, compute_sample_covariance,*)
(*                    compute_portfolio_returns, portfolio_var,            *)
(*                    portfolio_cvar                                       *)
(*   optimization.rs  MvoOptMethod::from_config, optimize_portfolio,       *)
(*                    optimize_risk_adjusted, optimize_near_optimal        *)
(*                                                                         *)
(* An f64 is modelled as an exact rational <<num, den>> in lowest terms    *)
(* with den > 0, extended with the IEEE-754 special values                 *)
(*   <<1, 0>> = +inf,  <<-1, 0>> = -inf,  <<0, 0>> = NaN.                  *)
(* Rounding error is not modelled; division by zero, NaN propagation and   *)
(* NaN comparisons (always false) are.                                     *)
(***************************************************************************)
EXTENDS Integers, Sequences, FiniteSets, TLC

VARIABLES
    \* ---- risk metrics calculator (portfolio.rs 92-133) ----
    returns_matrix,   \* argument of compute_portfolio_returns (n_assets x n_samples)
    weights,          \* argument of compute_portfolio_returns
    port_returns,     \* outcome of compute_portfolio_returns
    returns,          \* argument of portfolio_var / portfolio_cvar
    alpha,            \* confidence argument of portfolio_var / portfolio_cvar
    var_out,          \* outcome of portfolio_var
    cvar_out,         \* outcome of portfolio_cvar
    \* ---- return/covariance estimator (portfolio.rs 13-89) ----
    data,             \* the HistoricalData handed to calculate_portfolio_stats
    stats,            \* outcome of calculate_portfolio_stats
    stats_again,      \* outcome of a second calculate_portfolio_stats call on the same data
    \* ---- mean-variance optimizer (optimization.rs) ----
    opt_stats,        \* the PortfolioStats handed to optimize_portfolio
    n_points,         \* the frontier point count handed to optimize_portfolio
    po,               \* the PortofolioOptimization configuration
    pc,               \* where the call is: "start", "sweepA", "sweepB", "frontier", "done"
    x_mvo,            \* optimize_near_optimal: the normalized MVO weights
    epsilon,          \* optimize_near_optimal: the reference utility
    best_blend,       \* optimize_near_optimal: the best blend so far
    weights_concentration,  \* optimize_near_optimal: its concentration
    step,             \* optimize_near_optimal: the loop counter i of the running sweep
    opt_out,          \* outcome of optimize_portfolio
    evaluated,        \* optimize_near_optimal: candidates evaluated so far (history)
    opt_again         \* outcome of a second optimize_portfolio call on the same arguments

riskVars == <<returns_matrix, weights, port_returns, returns, alpha, var_out, cvar_out>>

statsVars == <<data, stats, stats_again>>

optInputs == <<opt_stats, n_points, po>>
optLocals == <<x_mvo, epsilon, best_blend, weights_concentration, step>>
optVars == <<optInputs, pc, optLocals, opt_out, evaluated, opt_again>>

vars == <<riskVars, statsVars, optVars>>

-----------------------------------------------------------------------------
(* Bounds of the model *)

\* longest return series handed to portfolio_var / portfolio_cvar
MaxT == 5
\* most assets (rows) of a returns matrix
MaxAssets == 2
\* most records of a HistoricalData
MaxObs == 7
\* the calendar: dates 1..MaxDate
MaxDate == 3
\* largest frontier point count handed to optimize_portfolio
MaxPoints == 3

-----------------------------------------------------------------------------
(* f64 arithmetic *)

Abs(n) == IF n < 0 THEN -n ELSE n

Sgn(n) == IF n > 0 THEN 1 ELSE IF n < 0 THEN -1 ELSE 0

RECURSIVE GCD(_, _)
GCD(a, b) == IF b = 0 THEN a ELSE GCD(b, a % b)

\* the f64 closest to n/d, d # 0
Norm(n, d) ==
    LET g == GCD(Abs(n), Abs(d))
        s == IF d < 0 THEN -1 ELSE 1
    IN  <<(s * n) \div g, (s * d) \div g>>

NaN == <<0, 0>>
PosInf == <<1, 0>>
NegInf == <<-1, 0>>
Zero == <<0, 1>>
One == <<1, 1>>
Two == <<2, 1>>

\* i as f64
FromInt(i) == <<i, 1>>

IsNaN(x) == x = NaN

\* f64::is_finite
Fin(x) == x[2] # 0

FNeg(a) == <<-a[1], a[2]>>

FAdd(a, b) ==
    IF IsNaN(a) \/ IsNaN(b) THEN NaN
    ELSE IF ~Fin(a) /\ ~Fin(b) THEN (IF a = b THEN a ELSE NaN)
    ELSE IF ~Fin(a) THEN a
    ELSE IF ~Fin(b) THEN b
    ELSE LET g == GCD(a[2], b[2])
         IN  Norm(a[1] * (b[2] \div g) + b[1] * (a[2] \div g), (a[2] \div g) * b[2])

FSub(a, b) == FAdd(a, FNeg(b))

FMul(a, b) ==
    IF IsNaN(a) \/ IsNaN(b) THEN NaN
    ELSE IF ~Fin(a) \/ ~Fin(b)
         THEN (IF a[1] = 0 \/ b[1] = 0 THEN NaN ELSE <<Sgn(a[1]) * Sgn(b[1]), 0>>)
    ELSE LET g == GCD(Abs(a[1]), b[2])
             h == GCD(Abs(b[1]), a[2])
         IN  Norm((a[1] \div g) * (b[1] \div h), (a[2] \div h) * (b[2] \div g))

FDiv(a, b) ==
    IF IsNaN(a) \/ IsNaN(b) THEN NaN
    ELSE IF ~Fin(a)
         THEN (IF ~Fin(b) THEN NaN ELSE <<a[1] * (IF b[1] < 0 THEN -1 ELSE 1), 0>>)
    ELSE IF ~Fin(b) THEN Zero
    ELSE IF b[1] = 0 THEN <<Sgn(a[1]), 0>>
    ELSE LET g == GCD(Abs(a[1]), Abs(b[1]))
             h == GCD(a[2], b[2])
         IN  Norm((a[1] \div g) * (b[2] \div h), (a[2] \div h) * (b[1] \div g))

\* a < b on f64: false whenever an operand is NaN
FLt(a, b) ==
    /\ ~IsNaN(a)
    /\ ~IsNaN(b)
    /\ IF Fin(a) /\ Fin(b)
       THEN LET g == GCD(a[2], b[2]) IN a[1] * (b[2] \div g) < b[1] * (a[2] \div g)
       ELSE IF ~Fin(a) /\ ~Fin(b) THEN a = NegInf /\ b = PosInf
       ELSE IF ~Fin(a) THEN a = NegInf
       ELSE b = PosInf

FGt(a, b) == FLt(b, a)

\* a >= b on f64: false whenever an operand is NaN
FGe(a, b) == ~IsNaN(a) /\ ~IsNaN(b) /\ ~FLt(a, b)

FAbs(a) == <<Abs(a[1]), a[2]>>

\* f64::ceil followed by `as usize` (a saturating cast: NaN and negatives give 0)
CeilAsUsize(x) ==
    IF ~Fin(x) \/ x[1] <= 0 THEN 0
    ELSE (x[1] + x[2] - 1) \div x[2]

\* a Vec / Array1 as the sequence of its evaluated elements
Vec(f) == f \o <<>>

\* Iterator::sum over a slice of f64, left to right from 0.0
RECURSIVE FSum(_)
FSum(s) == IF s = <<>> THEN Zero ELSE FAdd(FSum(SubSeq(s, 1, Len(s) - 1)), s[Len(s)])

-----------------------------------------------------------------------------
(* Outcomes of a call *)

NotCalled == [kind |-> "NotCalled"]
Ok(v) == [kind |-> "Ok", value |-> v]
Err(msg) == [kind |-> "Err", msg |-> msg]
\* the thread panics: the process aborts, nothing is returned to the caller
Panic(msg) == [kind |-> "Panic", msg |-> msg]

-----------------------------------------------------------------------------
(* Risk metrics calculator: portfolio.rs 92-133 *)

\* Array2<f64>: dim() = (nrows, ncols), cell[i][j] is row i, column j (1-based here)
Matrix(n, t, cell) == [nrows |-> n, ncols |-> t, cell |-> cell]

\* a.partial_cmp(b).unwrap() panics when either operand is NaN; slice::sort_by
\* compares every element at least once as soon as there are two of them
SortPanics(s) == Len(s) >= 2 /\ \E i \in 1..Len(s) : IsNaN(s[i])

\* position of x in the ascending sequence s (after the elements <= x: stable)
RECURSIVE InsertAsc(_, _)
InsertAsc(s, x) ==
    IF s = <<>> THEN <<x>>
    ELSE IF FLt(x, s[Len(s)]) THEN Append(InsertAsc(SubSeq(s, 1, Len(s) - 1), x), s[Len(s)])
    ELSE Append(s, x)

\* sorted.sort_by(|a, b| a.partial_cmp(b).unwrap()) on a slice without NaN
RECURSIVE SortAsc(_)
SortAsc(s) ==
    IF s = <<>> THEN <<>>
    ELSE InsertAsc(SortAsc(SubSeq(s, 1, Len(s) - 1)), s[Len(s)])

\* let idx = ((1.0 - alpha) * sorted.len() as f64).ceil() as usize;
TailIndex(a, len) == CeilAsUsize(FMul(FSub(One, a), FromInt(len)))

\* pub fn compute_portfolio_returns(returns_matrix, weights) -> Vec<f64>
compute_portfolio_returns(m, w) ==
    IF m.nrows # Len(w) THEN Panic("Weights length does not match assets")
    ELSE Ok(Vec([t \in 1..m.ncols |->
                FSum(Vec([i \in 1..m.nrows |-> FMul(m.cell[i][t], w[i])]))]))

\* portfolio_var with the index taken by floor() instead of ceil()
portfolio_var_floor(r, a) ==
    IF SortPanics(r) THEN Panic("unwrap on None")
    ELSE LET sorted == SortAsc(r)
             x == FMul(FSub(One, a), FromInt(Len(sorted)))
             idx == IF ~Fin(x) \/ x[1] <= 0 THEN 0 ELSE x[1] \div x[2]
         IN  IF idx >= Len(sorted)
             THEN (IF Len(sorted) = 0
                   THEN Panic("attempt to subtract with overflow")
                   ELSE Ok(sorted[Len(sorted)]))
             ELSE Ok(sorted[idx + 1])

\* pub fn portfolio_var(returns: &[f64], alpha: f64) -> f64
portfolio_var(r, a) ==
    IF SortPanics(r) THEN Panic("unwrap on None")
    ELSE LET sorted == SortAsc(r)
             idx == TailIndex(a, Len(sorted))
         IN  IF idx >= Len(sorted)
             THEN (IF Len(sorted) = 0
                   THEN Panic("attempt to subtract with overflow")
                   ELSE Ok(sorted[Len(sorted)]))
             ELSE Ok(sorted[idx + 1])

\* portfolio_cvar averaging the other side of the quantile, &sorted[idx..]
portfolio_cvar_upper_tail(r, a) ==
    IF SortPanics(r) THEN Panic("unwrap on None")
    ELSE LET sorted == SortAsc(r)
             idx == TailIndex(a, Len(sorted))
         IN  IF idx >= Len(sorted)
             THEN (IF Len(sorted) = 0
                   THEN Panic("attempt to subtract with overflow")
                   ELSE Ok(sorted[Len(sorted)]))
             ELSE LET tail == SubSeq(sorted, idx + 1, Len(sorted))
                  IN  Ok(FDiv(FSum(tail), FromInt(Len(tail))))

\* pub fn portfolio_cvar(returns: &[f64], alpha: f64) -> f64
portfolio_cvar(r, a) ==
    IF SortPanics(r) THEN Panic("unwrap on None")
    ELSE LET sorted == SortAsc(r)
             idx == TailIndex(a, Len(sorted))
         IN  IF idx >= Len(sorted)
             THEN (IF Len(sorted) = 0
                   THEN Panic("attempt to subtract with overflow")
                   ELSE Ok(sorted[Len(sorted)]))
             ELSE LET tail == SubSeq(sorted, 1, idx)
                  IN  Ok(FDiv(FSum(tail), FromInt(Len(tail))))

\* ---- inputs ----

\* per-period returns, in percent
ReturnPercents == {-5, -2, 1, 3, 4}
ReturnVals == {Norm(p, 100) : p \in ReturnPercents}

\* confidence levels, in percent (0.95 is the one main uses)
AlphaPercents == {-20, 0, 50, 80, 95, 100, 120}
Alphas == {Norm(p, 100) : p \in AlphaPercents}

SeqsUpTo(S, n) == UNION {[1..k -> S] : k \in 0..n}

\* series of finite returns, and short series holding a NaN
ReturnSeries ==
    SeqsUpTo(ReturnVals, MaxT)
        \cup {s \in SeqsUpTo(ReturnVals \cup {NaN}, 2) : \E i \in 1..Len(s) : IsNaN(s[i])}

\* returns matrices of up to MaxAssets rows and 0..2 columns
MatrixVals == {Norm(-2, 100), Norm(4, 100)}
ReturnsMatrices ==
    {Matrix(n, t, c) : <<n, t, c>> \in
        UNION {{<<n, t, c>> : c \in [1..n -> [1..t -> MatrixVals]]} :
                 <<n, t>> \in (0..MaxAssets) \X (0..2)}}

WeightVals == {Norm(1, 2), One}
WeightVectors == SeqsUpTo(WeightVals, MaxAssets + 1)

NoMatrix == Matrix(0, 0, <<>>)

\* main.rs 55-58: let tang_returns = portfolio::compute_portfolio_returns(..)
ComputePortfolioReturns ==
    /\ port_returns = NotCalled
    /\ port_returns' = compute_portfolio_returns(returns_matrix, weights)
    /\ UNCHANGED <<returns_matrix, weights, returns, alpha, var_out, cvar_out>>
    /\ UNCHANGED <<statsVars, optVars>>

\* main.rs 59: let var_95 = portfolio::portfolio_var(&tang_returns, 0.95)
PortfolioVar ==
    /\ var_out = NotCalled
    /\ var_out' = portfolio_var(returns, alpha)
    /\ UNCHANGED <<returns_matrix, weights, port_returns, returns, alpha, cvar_out>>
    /\ UNCHANGED <<statsVars, optVars>>

\* main.rs 60: let cvar_95 = portfolio::portfolio_cvar(&tang_returns, 0.95)
PortfolioCvar ==
    /\ cvar_out = NotCalled
    /\ cvar_out' = portfolio_cvar(returns, alpha)
    /\ UNCHANGED <<returns_matrix, weights, port_returns, returns, alpha, var_out>>
    /\ UNCHANGED <<statsVars, optVars>>

-----------------------------------------------------------------------------
(* Return/covariance estimator: portfolio.rs 13-89 *)

\* data/mod.rs 8-12: pub struct Record { date, asset, price }
Record(d, a, p) == [date |-> d, asset |-> a, price |-> p]

\* the keys of asset_prices: the distinct assets of the data
AssetsOf(h) == {h[i].asset : i \in 1..Len(h)}

\* asset_prices[a]: the prices of asset a, in the order the records come in
\* (portfolio.rs 15-21; nothing looks at record.date)
RECURSIVE PricesOf(_, _)
PricesOf(h, a) ==
    IF h = <<>> THEN <<>>
    ELSE LET rest == PricesOf(SubSeq(h, 1, Len(h) - 1), a)
             last == h[Len(h)]
         IN  IF last.asset = a THEN Append(rest, last.price) ELSE rest

\* portfolio.rs 30-35: the minimal length of a price vector
MinLen(h) ==
    LET lens == {Len(PricesOf(h, a)) : a \in AssetsOf(h)}
    IN  CHOOSE l \in lens : \A k \in lens : l <= k

\* returns taken relative to the later price of each pair
SimpleReturns_over_next(prices, min_len) ==
    Vec([day \in 1..(min_len - 1) |->
            FDiv(FSub(prices[day + 1], prices[day]), prices[day + 1])])

\* portfolio.rs 44-47: ret = (prices[day + 1] - prices[day]) / prices[day]
SimpleReturns(prices, min_len) ==
    Vec([day \in 1..(min_len - 1) |->
            FDiv(FSub(prices[day + 1], prices[day]), prices[day])])

\* mean_axis(Axis(1)): None when the rows are empty, else the mean of each row
MeanAxis1(m) ==
    IF m.ncols = 0 THEN Err("mean of an empty axis")
    ELSE Ok(Vec([i \in 1..m.nrows |-> FDiv(FSum(m.cell[i]), FromInt(m.ncols))]))

\* compute_sample_covariance with the n_obs < 2 check left out
compute_sample_covariance_unchecked(m) ==
    LET means == MeanAxis1(m)
    IN  IF means.kind # "Ok" THEN Err("Could not compute means of returns matrix")
        ELSE LET centered == Vec([i \in 1..m.nrows |->
                                 Vec([j \in 1..m.ncols |-> FSub(m.cell[i][j], means.value[i])])])
                 factor == FDiv(One, FSub(FromInt(m.ncols), One))
             IN  Ok(Matrix(m.nrows, m.nrows,
                     Vec([i \in 1..m.nrows |-> Vec([k \in 1..m.nrows |->
                         FMul(factor,
                              FSum(Vec([j \in 1..m.ncols |->
                                       FMul(centered[i][j], centered[k][j])])))])])))

\* fn compute_sample_covariance(returns) -> Result<Array2<f64>, _>
compute_sample_covariance(m) ==
    IF m.ncols < 2 THEN Err("Not enough observations to compute covariance.")
    ELSE LET means == MeanAxis1(m)
         IN  IF means.kind # "Ok" THEN Err("Could not compute means of returns matrix")
             ELSE LET centered == Vec([i \in 1..m.nrows |->
                                      Vec([j \in 1..m.ncols |-> FSub(m.cell[i][j], means.value[i])])])
                      factor == FDiv(One, FSub(FromInt(m.ncols), One))
                  IN  Ok(Matrix(m.nrows, m.nrows,
                          Vec([i \in 1..m.nrows |-> Vec([k \in 1..m.nrows |->
                              FMul(factor,
                                   FSum(Vec([j \in 1..m.ncols |->
                                            FMul(centered[i][j], centered[k][j])])))])])))

\* pub struct PortfolioStats
PortfolioStats(assets, mean_returns, covariance, rm) ==
    [assets |-> assets, mean_returns |-> mean_returns,
     covariance |-> covariance, returns_matrix |-> rm]

\* pub fn calculate_portfolio_stats(data) -> Result<PortfolioStats, _>
\* keys is the iteration order of asset_prices.keys(): a std HashMap with its
\* default hasher (randomly seeded per process) yields the keys in any order.
calculate_portfolio_stats(h, keys) ==
    LET n == Len(keys)
    IN  IF n = 0 THEN Err("No assets found in data.")
        ELSE LET min_len == MinLen(h)
             IN  IF min_len < 2 THEN Err("Not enough data points to compute returns.")
                 ELSE LET t == min_len - 1
                          rm == Matrix(n, t,
                                   Vec([i \in 1..n |->
                                       SimpleReturns(SubSeq(PricesOf(h, keys[i]), 1, min_len),
                                                     min_len)]))
                          mean_returns == MeanAxis1(rm)
                          covariance == compute_sample_covariance(rm)
                      IN  IF mean_returns.kind # "Ok"
                          THEN Err("Failed to compute mean returns")
                          ELSE IF covariance.kind # "Ok" THEN covariance
                          ELSE Ok(PortfolioStats(keys, mean_returns.value,
                                                  covariance.value, rm))

\* the orders in which a HashMap may yield the keys S
KeyOrders(S) ==
    {o \in [1..Cardinality(S) -> S] : \A i, j \in 1..Cardinality(S) : o[i] = o[j] => i = j}

\* ---- inputs ----

Assets == {"A", "B"}

\* settings.data_api.tickers: the configured tickers, in configuration order
Tickers == <<"A", "B">>
Dates == 1..MaxDate
Markets == {"rising", "falling"}

\* the closing price of asset a on date d in market m
MarketPrice(m, a, d) ==
    IF m = "rising"
    THEN (IF a = "A" THEN FromInt(d * d) ELSE FromInt(1 + (d % 2)))
    ELSE (IF a = "A" THEN FromInt(7 - d) ELSE FromInt(2))

RECURSIVE DistinctSeqs(_, _)
DistinctSeqs(S, k) ==
    IF k = 0 THEN {<<>>}
    ELSE {Append(o, x) : <<o, x>> \in
             {<<o, x>> \in DistinctSeqs(S, k - 1) \X S : \A i \in 1..Len(o) : o[i] # x}}

\* the dates of a series or of a file, each at most once, in any order
DateOrders == UNION {DistinctSeqs(Dates, k) : k \in 0..MaxDate}

RECURSIVE Flatten(_)
Flatten(ss) == IF ss = <<>> THEN <<>> ELSE Flatten(SubSeq(ss, 1, Len(ss) - 1)) \o ss[Len(ss)]

\* data_brokers: for ticker in tickers { for each entry of its series { push } }
TickerSeries(m, a, o) == [i \in 1..Len(o) |-> Record(o[i], a, MarketPrice(m, a, o[i]))]
DataByTicker ==
    {TickerSeries(m, "A", oa) \o TickerSeries(m, "B", ob) :
        <<m, oa, ob>> \in Markets \X DateOrders \X DateOrders}

\* read_csv: for each row (a date) { for each asset column whose cell parses { push } }
CsvRow(m, d, cells) ==
    (IF "A" \in cells THEN <<Record(d, "A", MarketPrice(m, "A", d))>> ELSE <<>>)
        \o (IF "B" \in cells THEN <<Record(d, "B", MarketPrice(m, "B", d))>> ELSE <<>>)
DataByRow ==
    UNION {{Flatten([i \in 1..Len(o) |-> CsvRow(m, o[i], cells[i])]) :
               cells \in [1..Len(o) -> (SUBSET Assets) \ {{}}]} :
           <<m, o>> \in Markets \X DateOrders}

\* data_brokers: ticker A has one more observation than ticker B has
DataPartial ==
    {TickerSeries(m, "A", oa) \o TickerSeries(m, "B", ob) :
        <<m, oa, ob>> \in Markets \X DistinctSeqs(1..(MaxDate + 1), MaxDate + 1)
                                 \X DistinctSeqs(Dates, MaxDate)}

\* the collections fetch_data can return, of at most MaxObs records
HistoricalData == {h \in DataByTicker \cup DataByRow \cup DataPartial : Len(h) <= MaxObs}

\* main.rs 26: portfolio::calculate_portfolio_stats(&historical_data)
CalculatePortfolioStats ==
    /\ stats = NotCalled
    /\ \E keys \in KeyOrders(AssetsOf(data)) :
           stats' = calculate_portfolio_stats(data, keys)
    /\ UNCHANGED <<data, stats_again>>
    /\ UNCHANGED <<riskVars, optVars>>

\* a second run of calculate_portfolio_stats on the same data: a new HashMap,
\* with its own RandomState, yields the keys in an order of its own
CalculatePortfolioStatsAgain ==
    /\ stats # NotCalled
    /\ stats_again = NotCalled
    /\ \E keys \in KeyOrders(AssetsOf(data)) :
           stats_again' = calculate_portfolio_stats(data, keys)
    /\ UNCHANGED <<data, stats>>
    /\ UNCHANGED <<riskVars, optVars>>

-----------------------------------------------------------------------------
(* Linear algebra on Array1<f64> / Array2<f64> *)

\* a.dot(&b) for vectors
Dot(u, v) == FSum(Vec([i \in 1..Len(u) |-> FMul(u[i], v[i])]))

\* m.dot(&v) for a matrix and a vector
MatVec(m, v) == Vec([i \in 1..m.nrows |-> Dot(m.cell[i], v)])

\* &v * c
VScale(v, c) == Vec([i \in 1..Len(v) |-> FMul(v[i], c)])

\* &u + &v
VAdd(u, v) == Vec([i \in 1..Len(u) |-> FAdd(u[i], v[i])])

\* &u - &v
VSub(u, v) == Vec([i \in 1..Len(u) |-> FSub(u[i], v[i])])

\* Array1::from_elem(n, c)
FromElem(n, c) == Vec([i \in 1..n |-> c])

\* s without its k-th element
Without(s, k) == SubSeq(s, 1, k - 1) \o SubSeq(s, k + 1, Len(s))

\* the rows of m without row i and column j
MinorCells(cell, i, j) == Vec([r \in 1..(Len(cell) - 1) |-> Without(Without(cell, i)[r], j)])

\* the determinant of a square matrix, expanded along its first row
RECURSIVE Det(_)
Det(cell) ==
    IF Len(cell) = 0 THEN One
    ELSE FSum(Vec([j \in 1..Len(cell) |->
                  FMul(IF j % 2 = 1 THEN cell[1][j] ELSE FNeg(cell[1][j]),
                       Det(MinorCells(cell, 1, j)))]))

\* cov.inv_into(): the inverse, or an error when the LU factorization meets a
\* zero pivot (the matrix is singular)
InvInto(m) ==
    LET d == Det(m.cell)
    IN  IF d = Zero THEN Err("singular matrix")
        ELSE Ok(Matrix(m.nrows, m.nrows,
                 Vec([i \in 1..m.nrows |-> Vec([j \in 1..m.nrows |->
                     FDiv(FMul(IF (i + j) % 2 = 0 THEN One ELSE FNeg(One),
                               Det(MinorCells(m.cell, j, i))),
                          d)])])))

\* ---- f64::sqrt: a value coef * sqrt(rad); rad = 1 when the value is rational ----

RECURSIVE ISqrtIn(_, _, _)
ISqrtIn(n, lo, hi) ==
    IF lo >= hi THEN lo
    ELSE LET mid == (lo + hi + 1) \div 2
         IN  IF mid * mid <= n THEN ISqrtIn(n, mid, hi) ELSE ISqrtIn(n, lo, mid - 1)

\* the integer square root of n >= 0
ISqrt(n) == ISqrtIn(n, 0, IF n < 46340 THEN n ELSE 46340)

IsSquare(n) == ISqrt(n) * ISqrt(n) = n

Surd(coef, rad) ==
    IF IsNaN(coef) THEN [coef |-> NaN, rad |-> One]
    ELSE IF ~Fin(coef) \/ coef = Zero THEN [coef |-> coef, rad |-> One]
    ELSE [coef |-> coef, rad |-> rad]

\* v.sqrt()
FSqrt(v) ==
    IF IsNaN(v) \/ FLt(v, Zero) THEN Surd(NaN, One)
    ELSE IF ~Fin(v) THEN Surd(v, One)
    ELSE IF IsSquare(v[1]) /\ IsSquare(v[2]) THEN Surd(Norm(ISqrt(v[1]), ISqrt(v[2])), One)
    ELSE Surd(One, v)

\* l * s for an f64 l and a square root s
SScale(l, s) == Surd(FMul(l, s.coef), s.rad)

\* x / s for an f64 x and a square root s
FDivS(x, s) ==
    IF s.rad = One THEN Surd(FDiv(x, s.coef), One)
    ELSE Surd(FDiv(x, FMul(s.coef, s.rad)), s.rad)

-----------------------------------------------------------------------------
(* Mean-variance optimizer: optimization.rs *)

\* config.rs 18-23: pub struct PortofolioOptimization
PortofolioOptimization(sub_method, risk_free_rate, params) ==
    [sub_method |-> sub_method, risk_free_rate |-> risk_free_rate, params |-> params]

RiskAdjusted(tau) == [method |-> "RiskAdjusted", tau |-> tau]
NearOptimal(tau, theta) == [method |-> "NearOptimal", tau |-> tau, theta |-> theta]

\* the tau of the fallback arm of from_config
DefaultTau == Norm(3, 10)

\* MvoOptMethod::from_config; params[k] panics when params is too short
from_config(c) ==
    IF c.sub_method = "risk-adjusted"
    THEN (IF Len(c.params) < 1 THEN Panic("index out of bounds")
          ELSE Ok(RiskAdjusted(c.params[1])))
    ELSE IF c.sub_method = "near-optimal"
    THEN (IF Len(c.params) < 2 THEN Panic("index out of bounds")
          ELSE Ok(NearOptimal(c.params[1], c.params[2])))
    ELSE Ok(RiskAdjusted(DefaultTau))

\* the annual risk-free rates drawn: 0 and 2.55 %
AnnualRates == {Zero, Norm(51, 2000)}

\* pub fn annual_to_daily_rate: (1.0 + r_annual).powf(1.0 / 252.0) - 1.0, on the
\* rates drawn and on the rates at or below -100 %; 1.0255^(1/252) - 1 =
\* 0.99922e-4 is taken as 1e-4, and powf of a negative base with a fractional
\* exponent is NaN
annual_to_daily_rate(r) ==
    IF FLt(FAdd(One, r), Zero) THEN NaN
    ELSE IF r = FNeg(One) THEN FNeg(One)
    ELSE IF r = Zero THEN Zero
    ELSE Norm(1, 10000)

\* the tolerance 1e-6 of the weight sum checks
Tolerance == Norm(1, 1000000)

\* the leverage of the last frontier point
max_leverage == Two

FrontierPoint(risk_free_weight, risky_weights, expected_return, portfolio_std, sharpe_ratio) ==
    [risk_free_weight |-> risk_free_weight, risky_weights |-> risky_weights,
     expected_return |-> expected_return, portfolio_std |-> portfolio_std,
     sharpe_ratio |-> sharpe_ratio]

\* a frontier loop whose step divides max_leverage by n_points, not n_points - 1
Frontier_step_over_n(optimal_risky, optimal_risky_return, optimal_risky_std, daily_risk_free, n_pts) ==
    LET lambda_step == FDiv(max_leverage, FromInt(n_pts))
    IN  [k \in 1..n_pts |->
            LET leverage == FMul(FromInt(k - 1), lambda_step)
                portfolio_return ==
                    FAdd(daily_risk_free,
                         FMul(leverage, FSub(optimal_risky_return, daily_risk_free)))
                portfolio_std == SScale(leverage, optimal_risky_std)
            IN  FrontierPoint(
                    FSub(One, leverage),
                    [i \in 1..Len(optimal_risky) |-> FMul(leverage, optimal_risky[i])],
                    portfolio_return,
                    portfolio_std,
                    IF FGt(leverage, Zero)
                    THEN FDivS(FSub(portfolio_return, daily_risk_free), portfolio_std)
                    ELSE Surd(Zero, One))]

\* optimization.rs 91-112 and 204-225: the frontier loop shared by both methods
Frontier(optimal_risky, optimal_risky_return, optimal_risky_std, daily_risk_free, n_pts) ==
    LET lambda_step == FDiv(max_leverage, FSub(FromInt(n_pts), One))
    IN  [k \in 1..n_pts |->
            LET leverage == FMul(FromInt(k - 1), lambda_step)
                portfolio_return ==
                    FAdd(daily_risk_free,
                         FMul(leverage, FSub(optimal_risky_return, daily_risk_free)))
                portfolio_std == SScale(leverage, optimal_risky_std)
            IN  FrontierPoint(
                    FSub(One, leverage),
                    [i \in 1..Len(optimal_risky) |-> FMul(leverage, optimal_risky[i])],
                    portfolio_return,
                    portfolio_std,
                    IF FGt(leverage, Zero)
                    THEN FDivS(FSub(portfolio_return, daily_risk_free), portfolio_std)
                    ELSE Surd(Zero, One))]

\* optimization.rs 87-119 and 198-233: the result built from the chosen weights
OptimizationResults(st, optimal_risky, daily_risk_free, n_pts) ==
    LET optimal_risky_return == Dot(st.mean_returns, optimal_risky)
        variance_risky == Dot(optimal_risky, MatVec(st.covariance, optimal_risky))
        optimal_risky_std == FSqrt(variance_risky)
        max_sharpe == FDivS(FSub(optimal_risky_return, daily_risk_free), optimal_risky_std)
    IN  [frontier |-> Frontier(optimal_risky, optimal_risky_return, optimal_risky_std,
                               daily_risk_free, n_pts),
         optimal_risky_portfolio |-> optimal_risky,
         optimal_risky_return |-> optimal_risky_return,
         optimal_risky_std |-> optimal_risky_std,
         max_sharpe |-> max_sharpe]

\* fn optimize_risk_adjusted(stats, risk_free_rate, tau, n_points)
optimize_risk_adjusted(st, risk_free_rate, tau, n_pts) ==
    LET n == Len(st.assets)
        mean == st.mean_returns
        daily_risk_free == annual_to_daily_rate(risk_free_rate)
        inv == InvInto(st.covariance)
    IN  IF inv.kind # "Ok" THEN inv
        ELSE LET cov_inv == inv.value
                 ones == FromElem(n, One)
                 excess == VSub(mean, FromElem(n, daily_risk_free))
                 A == Dot(ones, MatVec(cov_inv, ones))
                 B == Dot(ones, MatVec(cov_inv, excess))
                 lambda_multiplier == FDiv(FSub(B, FMul(Two, tau)), A)
                 factor == FDiv(One, FMul(Two, tau))
                 optimal_risky ==
                     VScale(MatVec(cov_inv, VSub(excess, FromElem(n, lambda_multiplier))),
                            factor)
                 sum_weights == FSum(optimal_risky)
             IN  IF FGt(FAbs(FSub(sum_weights, One)), Tolerance)
                 THEN Err("Optimal risky weights do not sum to 1.")
                 ELSE Ok(OptimizationResults(st, optimal_risky, daily_risk_free, n_pts))

\* the last value of the loop counter of a sweep: for i in 0..=100
LastStep == 100

\* optimization.rs 165 / 184: the mean-variance utility of the weights x
Utility(st, tau, x) ==
    FSub(Dot(st.mean_returns, x),
         FMul(FMul(Norm(1, 2), tau), Dot(x, MatVec(st.covariance, x))))

\* optimization.rs 164: &x_equal * (1.0 - alpha) + &x_mvo * alpha
BlendA(x_equal, xm, a) == VAdd(VScale(x_equal, FSub(One, a)), VScale(xm, a))

\* a second sweep that walks from x_mvo past the equal weights
BlendB_extrapolated(x_equal, xm, a) ==
    VAdd(VScale(x_equal, FAdd(One, a)), VScale(xm, FNeg(a)))

\* optimization.rs 183: &x_equal * alpha + &x_mvo * (1.0 - alpha)
BlendB(x_equal, xm, a) == VAdd(VScale(x_equal, a), VScale(xm, FSub(One, a)))

\* optimization.rs 154: Array1::from_elem(n, 1.0 / n as f64)
XEqual(st) == FromElem(Len(st.assets), FDiv(One, FromInt(Len(st.assets))))

\* optimization.rs 167-168 / 186-187: the test a candidate has to pass
Accepted(st, tau, theta, eps, x_blend) ==
    /\ FGe(Utility(st, tau, x_blend), FMul(theta, eps))
    /\ FLt(FAbs(FSub(FSum(x_blend), One)), Tolerance)

\* a loop body that keeps every accepted candidate, whatever its concentration
Consider_keeps_last(st, tau, theta, eps, x_blend, best, conc) ==
    IF Accepted(st, tau, theta, eps, x_blend)
    THEN <<x_blend, Dot(x_blend, x_blend)>>
    ELSE <<best, conc>>

\* optimization.rs 165-177 / 184-196: one candidate against the best so far;
\* gives the new <<best_blend, weights_concentration>>
Consider(st, tau, theta, eps, x_blend, best, conc) ==
    IF Accepted(st, tau, theta, eps, x_blend)
    THEN LET concentration == Dot(x_blend, x_blend)
         IN  IF FLt(concentration, conc) THEN <<x_blend, concentration>> ELSE <<best, conc>>
    ELSE <<best, conc>>

\* ---- inputs ----

\* per-period returns of one asset over three periods (prices 1,2,6,6 / 1,1,2,8 /
\* 2,4,2,1 / 1,2,4,8)
ReturnRows ==
    {<<One, Two, Zero>>, <<Zero, One, FromInt(3)>>,
     <<One, Norm(-1, 2), Norm(-1, 2)>>, <<One, One, One>>}

AssetNames == <<"A", "B", "C", "D">>

\* the PortfolioStats calculate_portfolio_stats builds from a returns matrix
StatsOf(rows) ==
    LET rm == Matrix(Len(rows), Len(rows[1]), rows)
    IN  PortfolioStats(SubSeq(AssetNames, 1, Len(rows)), MeanAxis1(rm).value,
                       compute_sample_covariance(rm).value, rm)

StatsInputs == {StatsOf(rows) : rows \in UNION {[1..n -> ReturnRows] : n \in 1..MaxAssets}}

\* the configurations: a method name and its params ([tau] or [tau, theta])
Configs ==
    {PortofolioOptimization(c[1], r, c[2]) : <<c, r>> \in
        {<<"risk-adjusted", <<One>>>>,
         <<"risk-adjusted", <<>>>>,
         <<"near-optimal", <<One, Norm(1, 2)>>>>,
         <<"near-optimal", <<One, One>>>>,
         <<"near-optimal", <<Norm(1, 2), Norm(9, 10)>>>>,
         <<"near-optimal", <<One>>>>,
         <<"max-sharpe", <<>>>>}
        \X AnnualRates}

NoLocals == <<>>

\* ---- the call ----

Method == from_config(po)

\* optimization.rs 54: from_config indexes params out of bounds
OptimizePanics ==
    /\ pc = "start"
    /\ Method.kind = "Panic"
    /\ opt_out' = Method
    /\ pc' = "done"
    /\ UNCHANGED <<optInputs, optLocals, evaluated, opt_again>>
    /\ UNCHANGED <<riskVars, statsVars>>

\* a first call that inverts the covariance of the stats it was handed in place
\* instead of inverting a clone
OptimizeRiskAdjusted_in_place ==
    /\ pc = "start"
    /\ Method.kind = "Ok"
    /\ Method.value.method = "RiskAdjusted"
    /\ opt_out' = optimize_risk_adjusted(opt_stats, po.risk_free_rate, Method.value.tau, n_points)
    /\ pc' = "done"
    /\ opt_stats' = IF InvInto(opt_stats.covariance).kind = "Ok"
                    THEN [opt_stats EXCEPT !.covariance = InvInto(opt_stats.covariance).value]
                    ELSE opt_stats
    /\ UNCHANGED <<n_points, po, optLocals, evaluated, opt_again>>
    /\ UNCHANGED <<riskVars, statsVars>>

\* optimization.rs 56-58: the RiskAdjusted arm and the whole of optimize_risk_adjusted
OptimizeRiskAdjusted ==
    /\ pc = "start"
    /\ Method.kind = "Ok"
    /\ Method.value.method = "RiskAdjusted"
    /\ opt_out' = optimize_risk_adjusted(opt_stats, po.risk_free_rate, Method.value.tau, n_points)
    /\ pc' = "done"
    /\ UNCHANGED <<optInputs, optLocals, evaluated, opt_again>>
    /\ UNCHANGED <<riskVars, statsVars>>

\* optimization.rs 59-61 and 133-158: the NearOptimal arm, up to the first sweep
OptimizeNearOptimal ==
    /\ pc = "start"
    /\ Method.kind = "Ok"
    /\ Method.value.method = "NearOptimal"
    /\ LET inv == InvInto(opt_stats.covariance)
       IN  IF inv.kind # "Ok"
           THEN /\ opt_out' = inv
                /\ pc' = "done"
                /\ UNCHANGED optLocals
           ELSE LET x_mvo_unnorm == MatVec(inv.value, opt_stats.mean_returns)
                    sum_x == FSum(x_mvo_unnorm)
                    xm == Vec([k \in 1..Len(x_mvo_unnorm) |-> FDiv(x_mvo_unnorm[k], sum_x)])
                IN  /\ x_mvo' = xm
                    /\ epsilon' = Utility(opt_stats, Method.value.tau, xm)
                    /\ best_blend' = xm
                    /\ weights_concentration' = Dot(xm, xm)
                    /\ step' = 0
                    /\ pc' = "sweepA"
                    /\ UNCHANGED opt_out
    /\ UNCHANGED <<optInputs, evaluated, opt_again>>
    /\ UNCHANGED <<riskVars, statsVars>>

\* optimization.rs 162-178: one iteration of the first sweep
SweepA ==
    /\ pc = "sweepA"
    /\ LET a == FDiv(FromInt(step), FromInt(100))
           x_blend == BlendA(XEqual(opt_stats), x_mvo, a)
           next == Consider(opt_stats, Method.value.tau, Method.value.theta, epsilon,
                            x_blend, best_blend, weights_concentration)
       IN  /\ best_blend' = next[1]
           /\ weights_concentration' = next[2]
    /\ IF step = LastStep THEN step' = 0 /\ pc' = "sweepB" ELSE step' = step + 1 /\ pc' = pc
    /\ evaluated' = evaluated + 1
    /\ UNCHANGED <<optInputs, x_mvo, epsilon, opt_out, opt_again>>
    /\ UNCHANGED <<riskVars, statsVars>>

\* optimization.rs 181-197: one iteration of the second sweep
SweepB ==
    /\ pc = "sweepB"
    /\ LET a == FDiv(FromInt(step), FromInt(100))
           x_blend == BlendB(XEqual(opt_stats), x_mvo, a)
           next == Consider(opt_stats, Method.value.tau, Method.value.theta, epsilon,
                            x_blend, best_blend, weights_concentration)
       IN  /\ best_blend' = next[1]
           /\ weights_concentration' = next[2]
    /\ IF step = LastStep THEN step' = 0 /\ pc' = "frontier" ELSE step' = step + 1 /\ pc' = pc
    /\ evaluated' = evaluated + 1
    /\ UNCHANGED <<optInputs, x_mvo, epsilon, opt_out, opt_again>>
    /\ UNCHANGED <<riskVars, statsVars>>

\* optimization.rs 198-233: the result of optimize_near_optimal
NearOptimalReturn ==
    /\ pc = "frontier"
    /\ opt_out' = Ok(OptimizationResults(opt_stats, best_blend,
                                         annual_to_daily_rate(po.risk_free_rate), n_points))
    /\ pc' = "done"
    /\ UNCHANGED <<optInputs, optLocals, evaluated, opt_again>>
    /\ UNCHANGED <<riskVars, statsVars>>

\* a caller runs optimize_portfolio a second time on the same stats, n_points
\* and configuration (RiskAdjusted arm): a new call of optimize_risk_adjusted on
\* the arguments as the first call left them
OptimizeRiskAdjustedAgain ==
    /\ pc = "done"
    /\ Method.kind = "Ok"
    /\ Method.value.method = "RiskAdjusted"
    /\ opt_again = NotCalled
    /\ opt_again' = optimize_risk_adjusted(opt_stats, po.risk_free_rate, Method.value.tau, n_points)
    /\ UNCHANGED <<optInputs, pc, optLocals, opt_out, evaluated>>
    /\ UNCHANGED <<riskVars, statsVars>>

-----------------------------------------------------------------------------
(* Specifications: one per component.  The inputs of a component are drawn  *)
(* in its initial states; the other components stay idle.                   *)

RiskIdle ==
    /\ returns_matrix = NoMatrix
    /\ weights = <<>>
    /\ port_returns = NotCalled
    /\ returns = <<>>
    /\ alpha = Norm(95, 100)
    /\ var_out = NotCalled
    /\ cvar_out = NotCalled

StatsIdle ==
    /\ data = <<>>
    /\ stats = NotCalled
    /\ stats_again = NotCalled

OptIdle ==
    /\ opt_stats = StatsOf(<<<<One, Two, Zero>>>>)
    /\ n_points = 2
    /\ po = PortofolioOptimization("risk-adjusted", Zero, <<One>>)
    /\ pc = "start"
    /\ x_mvo = NoLocals
    /\ epsilon = Zero
    /\ best_blend = NoLocals
    /\ weights_concentration = Zero
    /\ step = 0
    /\ opt_out = NotCalled
    /\ evaluated = 0
    /\ opt_again = NotCalled

InitRisk ==
    /\ StatsIdle
    /\ OptIdle
    /\ port_returns = NotCalled
    /\ var_out = NotCalled
    /\ cvar_out = NotCalled
    /\ \/ /\ returns_matrix \in ReturnsMatrices
          /\ weights \in WeightVectors
          /\ returns = <<>>
          /\ alpha = Norm(95, 100)
       \/ /\ returns_matrix = NoMatrix
          /\ weights = <<>>
          /\ returns \in ReturnSeries
          /\ alpha \in Alphas

NextRisk == ComputePortfolioReturns \/ PortfolioVar \/ PortfolioCvar

SpecRisk == InitRisk /\ [][NextRisk]_vars

InitStats ==
    /\ RiskIdle
    /\ OptIdle
    /\ data \in HistoricalData
    /\ stats = NotCalled
    /\ stats_again = NotCalled

NextStats == CalculatePortfolioStats \/ CalculatePortfolioStatsAgain

SpecStats == InitStats /\ [][NextStats]_vars

InitOpt ==
    /\ RiskIdle
    /\ StatsIdle
    /\ opt_stats \in StatsInputs
    /\ n_points \in 0..MaxPoints
    /\ po \in Configs
    /\ pc = "start"
    /\ x_mvo = NoLocals
    /\ epsilon = Zero
    /\ best_blend = NoLocals
    /\ weights_concentration = Zero
    /\ step = 0
    /\ opt_out = NotCalled
    /\ evaluated = 0
    /\ opt_again = NotCalled

NextOpt ==
    \/ OptimizePanics
    \/ OptimizeRiskAdjusted
    \/ OptimizeNearOptimal
    \/ SweepA
    \/ SweepB
    \/ NearOptimalReturn
    \/ OptimizeRiskAdjustedAgain

SpecOpt == InitOpt /\ [][NextOpt]_vars

-----------------------------------------------------------------------------
(* Reference definitions used by the properties of the risk metrics.  They  *)
(* do not sort: the k-th smallest value is characterised by counting.       *)

AllFinite(r) == \A i \in 1..Len(r) : Fin(r[i])

CountLt(r, v) == Cardinality({i \in 1..Len(r) : FLt(r[i], v)})
CountLe(r, v) == Cardinality({i \in 1..Len(r) : ~FLt(v, r[i])})

\* the value at 0-based position k of r in ascending order, 0 <= k < Len(r)
OrderStatistic(r, k) ==
    CHOOSE v \in {r[i] : i \in 1..Len(r)} : CountLt(r, v) <= k /\ k < CountLe(r, v)

\* ceil((1 - a) * len) for a <= 1: the least j with j >= (1 - a) * len
RefIdx(a, len) ==
    LET num == (a[2] - a[1]) * len
    IN  CHOOSE j \in 0..num : j * a[2] >= num /\ (j - 1) * a[2] < num

\* the largest value of r
RefMax(r) == CHOOSE v \in {r[i] : i \in 1..Len(r)} : \A i \in 1..Len(r) : ~FLt(v, r[i])

\* the value_at_risk of section 4.3
RefVaR(r, a) ==
    LET idx == RefIdx(a, Len(r))
    IN  IF idx >= Len(r) THEN RefMax(r) ELSE OrderStatistic(r, idx)

\* the arithmetic mean of the idx smallest values of r, 1 <= idx <= Len(r)
RefTailMean(r, idx) ==
    FDiv(FSum([k \in 1..idx |-> OrderStatistic(r, k - 1)]), FromInt(idx))

\* a confidence level is a probability
IsConfidence(a) == Fin(a) /\ FGe(a, Zero) /\ FGe(One, a)

ExampleReturns == <<Norm(-5, 100), Norm(-2, 100), Norm(1, 100), Norm(3, 100), Norm(4, 100)>>

-----------------------------------------------------------------------------
(* Properties: risk metrics *)

\* C5: a weight vector whose length differs from the number of rows of the
\* returns matrix yields an error value returned to the caller (no abort, no
\* return vector); matching lengths yield a vector of length T.
C5_MismatchReturnedAsError ==
    port_returns # NotCalled =>
        IF Len(weights) # returns_matrix.nrows
        THEN port_returns.kind = "Err"
        ELSE port_returns.kind = "Ok" /\ Len(port_returns.value) = returns_matrix.ncols

\* C6: portfolio_var and portfolio_cvar on an empty return series return an
\* error outcome to the caller, for every confidence level.
C6_EmptyReturnsIsError ==
    returns = <<>> =>
        /\ var_out # NotCalled => var_out.kind = "Err"
        /\ cvar_out # NotCalled => cvar_out.kind = "Err"

\* C7: for every non-empty series of finite returns and every confidence level,
\* portfolio_var returns the value at position idx = ceil((1-alpha)*T) of the
\* ascending order, or the largest value when idx >= T; the series
\* [-0.05, -0.02, 0.01, 0.03, 0.04] at alpha = 0.8 gives -0.02.
C7_VarIsEmpiricalQuantile ==
    (var_out # NotCalled /\ returns # <<>> /\ AllFinite(returns) /\ IsConfidence(alpha)) =>
        /\ var_out = Ok(RefVaR(returns, alpha))
        /\ (returns = ExampleReturns /\ alpha = Norm(80, 100)) =>
               var_out = Ok(Norm(-2, 100))

\* C7 witness: the example of the specification has been computed
C7_Witness ==
    /\ returns = ExampleReturns
    /\ alpha = Norm(80, 100)
    /\ var_out = Ok(Norm(-2, 100))

\* C8: for every non-empty series of finite returns and every confidence level,
\* portfolio_cvar returns the largest value when idx >= T, and otherwise the
\* arithmetic mean of the idx smallest values, with idx >= 1 so that the mean is
\* well defined.
C8_CvarIsTailMean ==
    (cvar_out # NotCalled /\ returns # <<>> /\ AllFinite(returns) /\ IsConfidence(alpha)) =>
        LET idx == RefIdx(alpha, Len(returns))
        IN  IF idx >= Len(returns)
            THEN cvar_out = Ok(RefMax(returns))
            ELSE idx >= 1 /\ cvar_out = Ok(RefTailMean(returns, idx))

-----------------------------------------------------------------------------
(* Properties: return/covariance estimator *)

\* the number of records of asset a
CountOf(h, a) == Cardinality({i \in 1..Len(h) : h[i].asset = a})

\* the prices of asset a in chronological order (dates are distinct per asset)
PricesByDate(h, a) ==
    LET idx == {i \in 1..Len(h) : h[i].asset = a}
    IN  [k \in 1..Cardinality(idx) |->
            h[CHOOSE i \in idx :
                Cardinality({j \in idx : h[j].date < h[i].date}) = k - 1].price]

\* the least number of records of one asset
RefMinLen(h) ==
    CHOOSE l \in {CountOf(h, a) : a \in AssetsOf(h)} :
        \A a \in AssetsOf(h) : l <= CountOf(h, a)

\* C2: every row of the returns matrix holds the returns between
\* chronologically consecutive prices of its asset, whatever the order in
\* which the records were handed in.
C2_ReturnsInDateOrder ==
    stats.kind = "Ok" =>
        \A i \in 1..Len(stats.value.assets) :
            stats.value.returns_matrix.cell[i] =
                SimpleReturns(PricesByDate(data, stats.value.assets[i]), RefMinLen(data))

\* C4: calculate_portfolio_stats returns an error exactly when the data holds
\* no asset or some asset has fewer than 3 observations, and succeeds otherwise.
C4_StatsErrorsExactly ==
    stats # NotCalled =>
        IF AssetsOf(data) = {} \/ \E a \in AssetsOf(data) : CountOf(data, a) < 3
        THEN stats.kind = "Err"
        ELSE stats.kind = "Ok"

\* C4 witness: two observations of some asset pass the min_len < 2 check and
\* are rejected by the covariance's T < 2 check
C4_Witness ==
    /\ \E a \in AssetsOf(data) : CountOf(data, a) = 2
    /\ stats = Err("Not enough observations to compute covariance.")

\* the k-th price of asset a in the order the records were handed in
NthPrice(h, a, k) ==
    h[CHOOSE i \in 1..Len(h) :
        h[i].asset = a /\ Cardinality({j \in 1..i : h[j].asset = a}) = k].price

\* the mean of a row of T returns
RefMean(r) == FDiv(FSum(r), FromInt(Len(r)))

\* the sample covariance of two rows of T returns: sum of the products of the
\* deviations over T - 1
RefCov(r, q) ==
    FDiv(FSum(Vec([t \in 1..Len(r) |->
             FMul(FSub(r[t], RefMean(r)), FSub(q[t], RefMean(q)))])),
         FromInt(Len(r) - 1))

\* C15: every PortfolioStats produced is aligned: with n distinct assets and
\* min_len the least observation count, assets lists each asset once,
\* returns_matrix is n x T with T = min_len - 1 >= 2, row i holds the simple
\* returns of the first min_len observations of assets[i], mean_returns has
\* length n and covariance is n x n, in the same asset order: mean_returns[i] is
\* the mean of row i and covariance[i][j] the sample covariance of rows i and j.
\* Observations are taken in the order the records were handed in.
C15_StatsAreAligned ==
    stats.kind = "Ok" =>
        LET s == stats.value
            n == Cardinality(AssetsOf(data))
            T == RefMinLen(data) - 1
            rm == s.returns_matrix
        IN  /\ Len(s.assets) = n
            /\ {s.assets[i] : i \in 1..n} = AssetsOf(data)
            /\ T >= 2
            /\ rm.nrows = n /\ rm.ncols = T /\ Len(rm.cell) = n
            /\ \A i \in 1..n :
                   /\ Len(rm.cell[i]) = T
                   /\ \A t \in 1..T :
                          rm.cell[i][t] =
                              FDiv(FSub(NthPrice(data, s.assets[i], t + 1),
                                        NthPrice(data, s.assets[i], t)),
                                   NthPrice(data, s.assets[i], t))
            /\ Len(s.mean_returns) = n
            /\ \A i \in 1..n : s.mean_returns[i] = RefMean(rm.cell[i])
            /\ s.covariance.nrows = n /\ s.covariance.ncols = n
            /\ Len(s.covariance.cell) = n
            /\ \A i, j \in 1..n :
                   /\ Len(s.covariance.cell[i]) = n
                   /\ s.covariance.cell[i][j] = RefCov(rm.cell[i], rm.cell[j])

\* asset A has four observations and asset B three: A's series is truncated to
\* its first three observations and both assets are in the result
C15_Witness ==
    /\ stats.kind = "Ok"
    /\ CountOf(data, "A") = 4
    /\ CountOf(data, "B") = 3
    /\ Len(stats.value.assets) = 2
    /\ stats.value.returns_matrix.ncols = 2

\* C17: the asset order of calculate_portfolio_stats is a function of the
\* input (two runs on the same data give the same assets sequence) and is the
\* order of the configured tickers, so that entry k of every downstream vector
\* belongs to the k-th ticker main passes to plot_portfolio as its label.
C17_AssetOrderIsTickerOrder ==
    /\ (stats.kind = "Ok" /\ stats_again.kind = "Ok") =>
           stats_again.value.assets = stats.value.assets
    /\ (stats.kind = "Ok" /\ AssetsOf(data) = {Tickers[k] : k \in 1..Len(Tickers)}) =>
           stats.value.assets = Tickers

-----------------------------------------------------------------------------
(* Properties: mean-variance optimizer *)

RecognizedMethods == {"risk-adjusted", "near-optimal"}

\* the call to optimize_portfolio is over
Returned == pc = "done"

\* C1: for every sub_method other than "risk-adjusted" and "near-optimal" (and
\* a valid frontier point count), optimize_portfolio returns an error and no
\* OptimizationResults.
C1_UnknownMethodFails ==
    (Returned /\ po.sub_method \notin RecognizedMethods /\ n_points >= 2) =>
        opt_out.kind = "Err"

\* C3: for every frontier point count below 2, with either method (a
\* configuration from_config accepts), the optimization returns an error and no
\* OptimizationResults.
C3_ResolutionBelowTwoFails ==
    (Returned /\ Method.kind = "Ok" /\ n_points < 2) => opt_out.kind = "Err"

\* C10: every OptimizationResults returned, by either method, for a valid
\* frontier point count, has optimal risky weights that sum to 1 within 1e-6.
C10_ReturnedWeightsSumToOne ==
    (Returned /\ opt_out.kind = "Ok" /\ n_points >= 2) =>
        FGe(Tolerance, FAbs(FSub(FSum(opt_out.value.optimal_risky_portfolio), One)))

\* the call went through optimize_near_optimal and returned a result, for a
\* valid frontier point count
NearOptimalReturned ==
    /\ Returned
    /\ Method.kind = "Ok"
    /\ Method.value.method = "NearOptimal"
    /\ opt_out.kind = "Ok"
    /\ n_points >= 2

\* sum of squared weights
Concentration(x) == Dot(x, x)

\* C11: the weights the near-optimal method returns have a concentration at
\* most that of the raw x_mvo, and when they are a blend that replaced x_mvo
\* their utility is at least theta * epsilon.
C11_NearOptimalNoWorseThanMvo ==
    NearOptimalReturned =>
        /\ FGe(Concentration(x_mvo), Concentration(opt_out.value.optimal_risky_portfolio))
        /\ (opt_out.value.optimal_risky_portfolio # x_mvo =>
               FGe(Utility(opt_stats, Method.value.tau, opt_out.value.optimal_risky_portfolio),
                   FMul(Method.value.theta, epsilon)))

\* the leverage of frontier point k (counted from 0) of n: k * 2.0 / (n - 1)
RefLeverage(k, n) == Norm(2 * k, n - 1)

\* the call returned a result for a valid frontier point count
ReturnedOk == Returned /\ opt_out.kind = "Ok" /\ n_points >= 2

\* C12: for N >= 2 and either method, the frontier has exactly N points in
\* increasing leverage order; point k (from 0) has risk_free_weight
\* 1 - k * 2 / (N - 1) and risky_weights k * 2 / (N - 1) times the optimal risky
\* weights, componentwise.
C12_FrontierIsLinearSweep ==
    ReturnedOk =>
        LET res == opt_out.value
            w == res.optimal_risky_portfolio
        IN  /\ Len(res.frontier) = n_points
            /\ \A k \in 0..(n_points - 1) :
                   LET pt == res.frontier[k + 1]
                   IN  /\ pt.risk_free_weight = FSub(One, RefLeverage(k, n_points))
                       /\ Len(pt.risky_weights) = Len(w)
                       /\ \A i \in 1..Len(w) :
                              pt.risky_weights[i] = FMul(RefLeverage(k, n_points), w[i])
            /\ \A k \in 1..(n_points - 1) :
                   FLt(res.frontier[k + 1].risk_free_weight, res.frontier[k].risk_free_weight)
            /\ res.frontier[1].risk_free_weight = One
            /\ res.frontier[n_points].risk_free_weight = FNeg(One)

\* a three-point frontier of two assets, returned by the near-optimal method
\* with finite weights that are not all zero
C12_Witness ==
    /\ NearOptimalReturned
    /\ n_points = 3
    /\ Len(opt_out.value.optimal_risky_portfolio) = 2
    /\ \A i \in 1..2 : Fin(opt_out.value.optimal_risky_portfolio[i])
    /\ opt_out.value.frontier[2].risky_weights = opt_out.value.optimal_risky_portfolio
    /\ opt_out.value.frontier[3].risky_weights # opt_out.value.optimal_risky_portfolio

\* C13: in every returned result the first frontier point (leverage 0) has
\* sharpe_ratio 0, portfolio_std 0 and the per-period risk-free rate as its
\* expected_return; at the points of positive leverage the Sharpe ratio is the
\* quotient (expected_return - rf) / portfolio_std.
C13_FirstPointIsRiskFree ==
    ReturnedOk =>
        LET frontier == opt_out.value.frontier
            rf == annual_to_daily_rate(po.risk_free_rate)
        IN  /\ frontier[1].sharpe_ratio = Surd(Zero, One)
            /\ frontier[1].portfolio_std = Surd(Zero, One)
            /\ frontier[1].expected_return = rf
            /\ \A k \in 1..(n_points - 1) :
                   frontier[k + 1].sharpe_ratio =
                       FDivS(FSub(frontier[k + 1].expected_return, rf),
                             frontier[k + 1].portfolio_std)

SweepAlphas == {Norm(k, 100) : k \in 0..100}

\* the candidates of the two sweeps for the x_mvo of the state
CandidatesA == {BlendA(XEqual(opt_stats), x_mvo, a) : a \in SweepAlphas}
CandidatesB == {BlendB(XEqual(opt_stats), x_mvo, a) : a \in SweepAlphas}

\* the candidates that pass the acceptance test of the state's configuration
AcceptedOf(C) ==
    {x \in C : Accepted(opt_stats, Method.value.tau, Method.value.theta, epsilon, x)}

\* both sweeps are over and the result is not built yet
SearchOver == pc = "frontier"

\* C16: the search evaluates exactly 202 candidates and stops; the best so far
\* starts as x_mvo with its own concentration and is replaced only by an
\* accepted candidate of strictly smaller concentration; the final weights have
\* the smallest concentration among x_mvo and the accepted candidates, and are
\* x_mvo when no accepted candidate is strictly better.
C16_SearchKeepsBestOf202 ==
    /\ [](evaluated <= 202)
    /\ []((pc \in {"sweepA", "sweepB"}) => evaluated < 202)
    /\ []((pc = "sweepA" /\ step = 0) =>
            best_blend = x_mvo /\ weights_concentration = Concentration(x_mvo))
    /\ [][(pc \in {"sweepA", "sweepB"} /\ best_blend' # best_blend) =>
            /\ best_blend' \in AcceptedOf(CandidatesA \cup CandidatesB)
            /\ FLt(Concentration(best_blend'), weights_concentration)
            /\ weights_concentration' = Concentration(best_blend')]_vars
    /\ [](SearchOver =>
            /\ evaluated = 202
            /\ best_blend \in {x_mvo} \cup AcceptedOf(CandidatesA \cup CandidatesB)
            /\ \A x \in {x_mvo} \cup AcceptedOf(CandidatesA \cup CandidatesB) :
                   ~FLt(Concentration(x), Concentration(best_blend))
            /\ ((\A x \in AcceptedOf(CandidatesA \cup CandidatesB) :
                     ~FLt(Concentration(x), Concentration(x_mvo)))
                   => best_blend = x_mvo))
    /\ [](NearOptimalReturned => opt_out.value.optimal_risky_portfolio = best_blend)

\* the search ended on a blend strictly between x_mvo and the equal weights
C16_Witness ==
    /\ SearchOver
    /\ evaluated = 202
    /\ best_blend # x_mvo
    /\ best_blend # XEqual(opt_stats)
    /\ \A i \in 1..Len(best_blend) : Fin(best_blend[i])

\* sweep A is over and sweep B about to start (x_mvo and x_equal are the same
\* throughout the search)
SweepBStarts == pc = "sweepB" /\ step = 0

\* C18: in exact arithmetic the candidate of sweep B at alpha is the candidate
\* of sweep A at 1 - alpha, the two sweeps have the same set of candidates, and
\* sweep B never replaces the best blend sweep A ended with (same weights, same
\* concentration).
C18_SweepBIsRedundant ==
    /\ [](SweepBStarts =>
            /\ \A k \in 0..100 :
                   BlendB(XEqual(opt_stats), x_mvo, Norm(k, 100)) =
                       BlendA(XEqual(opt_stats), x_mvo, FSub(One, Norm(k, 100)))
            /\ CandidatesB = CandidatesA)
    /\ [][pc = "sweepB" =>
            /\ best_blend' = best_blend
            /\ weights_concentration' = weights_concentration]_vars

\* sweep B is at a candidate that is accepted and ties with the best blend that
\* sweep A found, which is not x_mvo
C18_Witness ==
    /\ pc = "sweepB"
    /\ step > 0
    /\ best_blend # x_mvo
    /\ LET x_blend == BlendB(XEqual(opt_stats), x_mvo, Norm(step, 100))
       IN  /\ Accepted(opt_stats, Method.value.tau, Method.value.theta, epsilon, x_blend)
           /\ Concentration(x_blend) = weights_concentration
           /\ x_blend = best_blend

====
